---- MODULE Spec2Model ----
(***************************************************************************)
(* Model of network_metrics_package: the per-component metric runner       *)
(* (metrics/generator.py) and the array helpers (metrics/utils.py).        *)
(*                                                                         *)
(* Conventions.  Vertices are 0..n-1 as in graph-tool; a numpy array is a  *)
(* sequence, so the entry of vertex v is at position v+1 (operator At).    *)
(* A float is a record: a finite value is an exact fraction n/d, the       *)
(* missing marker is NaN, the infinities are PInf and NInf.  The float     *)
(* range is kept in miniature: a finite result whose magnitude exceeds     *)
(* FMax overflows to an infinity, as IEEE-754 doubles do beyond            *)
(* 1.8e308.  Rounding inside the range is not modelled.                    *)
(***************************************************************************)
EXTENDS Integers, Sequences, FiniteSets, TLC

\* ---- bounds of the model
MaxN == 2
MaxFail == 1
FMax == 2
MaxLen == 3

\* ------------------------------------------------------------------------
\* floats
\* ------------------------------------------------------------------------
Abs(x) == IF x < 0 THEN -x ELSE x

RECURSIVE Gcd(_, _)
Gcd(a, b) == IF b = 0 THEN a ELSE Gcd(b, a % b)

NaN == [k |-> "nan", n |-> 0, d |-> 1]
PInf == [k |-> "inf", n |-> 1, d |-> 1]
NInf == [k |-> "inf", n |-> -1, d |-> 1]

\* the float nearest to the fraction n/d (d > 0): reduced, or an infinity on overflow
Frac(n, d) ==
    IF Abs(n) > FMax * d
    THEN (IF n > 0 THEN PInf ELSE NInf)
    ELSE LET g == Gcd(Abs(n), d)
         IN  IF n = 0 THEN [k |-> "fin", n |-> 0, d |-> 1]
             ELSE [k |-> "fin", n |-> n \div g, d |-> d \div g]

Num(i) == Frac(i, 1)

isfinite(x) == x.k = "fin"
isnan(x) == x.k = "nan"
isinf(x) == x.k = "inf"

\* x < y for two finite floats
FLess(x, y) == x.n * y.d < y.n * x.d

\* IEEE subtraction x - y
FSub(x, y) ==
    IF isnan(x) \/ isnan(y) THEN NaN
    ELSE IF isinf(x) /\ isinf(y) THEN (IF x.n = y.n THEN NaN ELSE x)
    ELSE IF isinf(x) THEN x
    ELSE IF isinf(y) THEN (IF y.n > 0 THEN NInf ELSE PInf)
    ELSE Frac(x.n * y.d - y.n * x.d, x.d * y.d)

\* IEEE division x / y
FDiv(x, y) ==
    IF isnan(x) \/ isnan(y) THEN NaN
    ELSE IF isinf(x) /\ isinf(y) THEN NaN
    ELSE IF isinf(x) THEN (IF y.n < 0 THEN (IF x.n > 0 THEN NInf ELSE PInf) ELSE x)
    ELSE IF isinf(y) THEN Num(0)
    ELSE IF y.n = 0
         THEN (IF x.n = 0 THEN NaN ELSE IF x.n > 0 THEN PInf ELSE NInf)
    ELSE IF y.n > 0 THEN Frac(x.n * y.d, x.d * y.n)
    ELSE Frac(-(x.n * y.d), x.d * (-y.n))

\* the raw values an algorithm may put in a result
RawValues == {Num(i) : i \in (-FMax)..FMax} \cup {NaN, PInf, NInf}

\* ------------------------------------------------------------------------
\* metrics/utils.py
\* ------------------------------------------------------------------------
\* mutants of sanitize_array: the infinities are left in place; every
\* non-finite entry becomes 0
sanitize_array_keep(arr) == arr

sanitize_array_zero(arr) ==
    [i \in 1..Len(arr) |-> IF isfinite(arr[i]) THEN arr[i] ELSE Num(0)]

\* mutant of sanitize_array: only +inf is replaced
sanitize_array_posinf(arr) ==
    [i \in 1..Len(arr) |-> IF arr[i] = PInf THEN NaN ELSE arr[i]]

\* a[~np.isfinite(a)] = np.nan
sanitize_array(arr) ==
    [i \in 1..Len(arr) |-> IF isfinite(arr[i]) THEN arr[i] ELSE NaN]

\* ~np.isnan(a), as the set of positions
ValidPos(a) == {i \in 1..Len(a) : ~isnan(a[i])}

\* np.nanmin(a), np.nanmax(a) for an array with a valid entry
nanmin(a) ==
    CHOOSE x \in {a[i] : i \in ValidPos(a)} :
        \A j \in ValidPos(a) : ~FLess(a[j], x)

nanmax(a) ==
    CHOOSE x \in {a[i] : i \in ValidPos(a)} :
        \A j \in ValidPos(a) : ~FLess(x, a[j])

\* mutant of minmax_normalize: the mx == mn case is not singled out
minmax_normalize_divides(arr) ==
    LET a == sanitize_array(arr)
        valid == ValidPos(a)
    IN  IF valid = {} THEN a
        ELSE [i \in 1..Len(a) |->
                IF i \in valid
                THEN FDiv(FSub(a[i], nanmin(a)), FSub(nanmax(a), nanmin(a)))
                ELSE a[i]]

\* mutant of minmax_normalize: the shifted values are divided by the maximum
minmax_normalize_by_max(arr) ==
    LET a == sanitize_array(arr)
        valid == ValidPos(a)
    IN  IF valid = {} THEN a
        ELSE LET mn == nanmin(a)
                 mx == nanmax(a)
             IN  IF mx = mn
                 THEN [i \in 1..Len(a) |-> IF i \in valid THEN Num(0) ELSE a[i]]
                 ELSE [i \in 1..Len(a) |->
                          IF i \in valid
                          THEN FDiv(FSub(a[i], mn), mx)
                          ELSE a[i]]

minmax_normalize(arr) ==
    LET a == sanitize_array(arr)
        valid == ValidPos(a)
    IN  IF valid = {} THEN a
        ELSE LET mn == nanmin(a)
                 mx == nanmax(a)
             IN  IF mx = mn
                 THEN [i \in 1..Len(a) |-> IF i \in valid THEN Num(0) ELSE a[i]]
                 ELSE [i \in 1..Len(a) |->
                          IF i \in valid
                          THEN FDiv(FSub(a[i], mn), FSub(mx, mn))
                          ELSE a[i]]

\* ------------------------------------------------------------------------
\* graphs and what graph-tool computes on them
\* ------------------------------------------------------------------------
Vertices(g) == 0..(g.n - 1)

\* an undirected edge {u,v} is kept once, as <<u,v>> with u < v
Graphs ==
    {g \in [n : 0..MaxN, directed : BOOLEAN,
            edges : SUBSET ((0..(MaxN - 1)) \X (0..(MaxN - 1)))] :
        \A e \in g.edges :
            /\ e[1] \in Vertices(g)
            /\ e[2] \in Vertices(g)
            /\ e[1] # e[2]
            /\ (~g.directed => e[1] < e[2])}

Adjacent(g, u, v) ==
    <<u, v>> \in g.edges \/ (~g.directed /\ <<v, u>> \in g.edges)

RECURSIVE Reaches(_, _, _, _)
Reaches(g, u, v, k) ==
    \/ u = v
    \/ k > 0 /\ \E w \in Vertices(g) : Adjacent(g, u, w) /\ Reaches(g, w, v, k - 1)

\* gt.label_components with its default arguments: connected components of
\* an undirected graph, strongly connected components of a directed one
SameComponent(g, u, v) == Reaches(g, u, v, g.n) /\ Reaches(g, v, u, g.n)

ComponentRoot(g, v) ==
    CHOOSE u \in 0..v :
        /\ SameComponent(g, u, v)
        /\ \A w \in 0..(u - 1) : ~SameComponent(g, w, v)

\* gt.label_components(G)[0].get_array(): one label per vertex, 0..k-1
label_components(g) ==
    LET root == [v \in Vertices(g) |-> ComponentRoot(g, v)]
        roots == {root[w] : w \in Vertices(g)}
    IN  [i \in 1..g.n |-> Cardinality({r \in roots : r < root[i - 1]})]

RECURSIVE SortSet(_)
SortSet(S) ==
    IF S = {} THEN <<>>
    ELSE LET m == CHOOSE x \in S : \A y \in S : x <= y
         IN  <<m>> \o SortSet(S \ {m})

\* mutant of unique: the label of every vertex, repeated labels kept
unique_keeps(a) == a

\* np.unique(comp_map)
unique(a) == SortSet({a[i] : i \in 1..Len(a)})

\* mutant of where_eq: every index is selected
where_any(a, label) == SortSet({i - 1 : i \in 1..Len(a)})

\* np.where(comp_map == comp_label)[0]
where_eq(a, label) == SortSet({i - 1 : i \in {j \in 1..Len(a) : a[j] = label}})

\* mutant of full_nan: np.zeros(n)
full_zero(n) == [i \in 1..n |-> Num(0)]

\* np.full(n, np.nan)
full_nan(n) == [i \in 1..n |-> NaN]

\* list(G_sub.vertices()) of GraphView(G, vfilt=vfilt_prop): ascending index
view_vertices(vf) == SortSet({i - 1 : i \in {j \in 1..Len(vf) : vf[j]}})

At(a, v) == a[v + 1]

\* ------------------------------------------------------------------------
\* what an algorithm may return
\* ------------------------------------------------------------------------
\* The algorithms are graph-tool's: only their outcomes are modelled.  The
\* per-vertex values follow one of a few patterns.
Patterns == {"ramp", "wide", "pinf", "ninf"}

Score(pat, v) ==
    CASE pat = "ramp" -> Num(v % (FMax + 1))
      [] pat = "wide" -> (IF v % 2 = 0 THEN Num(-FMax) ELSE Num(FMax))
      [] pat = "pinf" -> (IF v = 0 THEN PInf ELSE Num(v % (FMax + 1)))
      [] OTHER -> (IF v = 0 THEN NInf ELSE IF v = 1 THEN NaN ELSE Num(v % (FMax + 1)))

\* a result object: shape says what Python sees
\*   none     None
\*   vprop    scalar vertex property map (has .a), vals over all vertex indices
\*   vecprop  vector-valued vertex property map (has .a, float(res[v]) raises)
\*   scalar   a number
\*   seq      list or ndarray of numbers
\*   junk     an object np.asarray(..., dtype=float) rejects
\*   tuple    a tuple of the above (items)
Obj(shape, vals, items) == [shape |-> shape, vals |-> vals, items |-> items]
NoneRes == Obj("none", <<>>, <<>>)
VecProp == Obj("vecprop", <<>>, <<>>)
Junk == Obj("junk", <<>>, <<>>)
Scalar(x) == Obj("scalar", <<x>>, <<>>)
SeqRes(vals) == Obj("seq", vals, <<>>)
VProp(vals) == Obj("vprop", vals, <<>>)
TupleRes(items) == Obj("tuple", <<>>, items)

\* hasattr(x, "a")
HasA(o) == o.shape \in {"vprop", "vecprop"}

\* the property map an algorithm fills on a view: values on the view's
\* vertices, the default 0 elsewhere
ViewProp(n, vs, pat) ==
    VProp([i \in 1..n |->
            IF \E j \in 1..Len(vs) : vs[j] = i - 1 THEN Score(pat, i - 1) ELSE Num(0)])

\* a plain sequence of l numbers in the order of the view's vertices
ViewSeq(vs, l, pat) ==
    SeqRes([i \in 1..l |-> IF i <= Len(vs) THEN Score(pat, vs[i]) ELSE Num(1)])

PerComponentMetrics == {"eigenvector", "katz", "eigentrust", "trust_transitivity"}
WholeGraphMetrics == {"pagerank", "betweenness", "closeness"}

\* the result graph-tool documents for the callable of metric m
\* (gt.eigenvector returns (eigenvalue, vprop), the others a vprop)
Nominal(m, n, vs, pat) ==
    IF m = "eigenvector"
    THEN TupleRes(<<Scalar(Num(1)), ViewProp(n, vs, pat)>>)
    ELSE ViewProp(n, vs, pat)

\* results outside the callable's contract
Malformed(m, n, vs) ==
    IF m \in PerComponentMetrics
    THEN {VecProp}
    ELSE {VecProp, Junk, NoneRes, Scalar(Num(1)),
          TupleRes(<<Scalar(Num(1)), Scalar(Num(0))>>),
          TupleRes(<<Scalar(Num(1)), Junk>>),
          TupleRes(<<ViewProp(n, vs, "wide"), Scalar(Num(1)), ViewProp(n, vs, "ramp")>>)}
         \cup {ViewSeq(vs, l, "ramp") : l \in {k \in (Len(vs) - 1)..(Len(vs) + 1) : k >= 0}}

\* the outcome of one invocation: an exception, or a returned object
Outcome(ex, r) == [ex |-> ex, res |-> r]

\* The ways the algorithms of one run may depart from the documented result
\* with ordinary values: raise, raise a TypeError, return values that
\* overflow a difference, are infinite or missing, or return another shape.
FaultKinds == {"Exception", "TypeError", "wide", "pinf", "ninf", "malformed"}

\* the outcomes of one invocation on the view with vertices vs in a run
\* whose faults are of kind f
Outcomes(m, n, vs, f) ==
    {Outcome("none", Nominal(m, n, vs, "ramp"))}
    \cup CASE f \in {"Exception", "TypeError"} -> {Outcome(f, NoneRes)}
            [] f = "malformed" -> {Outcome("none", r) : r \in Malformed(m, n, vs)}
            [] OTHER -> {Outcome("none", Nominal(m, n, vs, f))}

\* an outcome that is not the documented result with ordinary values
\* counts against the run's budget of faults
Cost(m, n, vs, o) ==
    IF o = Outcome("none", Nominal(m, n, vs, "ramp")) THEN 0 ELSE 1

\* mutant of FirstVertex: the last vertex of the view
LastVertex(vs) == vs[Len(vs)]

\* line 146: vs[0], the first vertex the view iterates over
FirstVertex(vs) == vs[1]

\* lines 141-148, trust_call(g, w): the ways a call of it may end, each with
\* the invocations of gt.trust_transitivity it made (source -1: no source
\* argument) and its count of faults.  A view without vertices gets an
\* empty property map and no invocation.  An invocation with source that
\* raises TypeError is followed by one without source, which returns a
\* vector-valued map (trust towards every vertex) or raises in turn; any
\* other exception leaves trust_call.
trust_call(n, vs, f) ==
    IF vs = <<>>
    THEN {[o |-> Outcome("none", VProp([i \in 1..n |-> Num(0)])),
           inner |-> <<>>, cost |-> 0]}
    ELSE {[o |-> o,
           inner |-> <<[source |-> FirstVertex(vs), ex |-> o.ex]>>,
           cost |-> Cost("trust_transitivity", n, vs, o)] :
             o \in {x \in Outcomes("trust_transitivity", n, vs, f) : x.ex # "TypeError"}}
         \cup (IF f = "TypeError"
               THEN {[o |-> o2,
                      inner |-> <<[source |-> FirstVertex(vs), ex |-> "TypeError"],
                                  [source |-> -1, ex |-> o2.ex]>>,
                      cost |-> IF o2.ex = "none" THEN 1 ELSE 2] :
                        o2 \in {Outcome("none", VecProp), Outcome("TypeError", NoneRes)}}
               ELSE {})

\* the ways one call of the callable of metric m on the view vs may end
Invocations(m, n, vs, f) ==
    IF m = "trust_transitivity"
    THEN trust_call(n, vs, f)
    ELSE {[o |-> o, inner |-> <<>>, cost |-> Cost(m, n, vs, o)] :
            o \in Outcomes(m, n, vs, f)}

\* ------------------------------------------------------------------------
\* state
\* ------------------------------------------------------------------------
VARIABLES
    ppc, plot_out, used,        \* plot_box: position, argument out, used_data
    fpc, inp, out,              \* a helper of utils.py applied to one column
    mpc, log,                   \* position in main(), records logged at ERROR level
    G,                          \* the graph
    gfilt,                      \* the vertex filter active on G itself
    normalize, save_files,      \* arguments of compute_and_save_metrics
    pc,                         \* position in compute_and_save_metrics
    metrics,                    \* the dict: metric name -> array object
    heap,                       \* the array objects, by identity
    files,                      \* what exists on disk
    ret,                        \* how compute_and_save_metrics ended
    metric,                     \* the callable _metric_per_component_mapped runs
    rpc,                        \* position in _metric_per_component_mapped
    comp_map, uniq, ci,         \* labels, distinct labels, loop index
    arr,                        \* the array being filled
    vfilt,                      \* vfilt_prop.a
    res,                        \* res of the current iteration
    calls,                      \* invocations made in the current iteration
    fault,                      \* the kind of fault the algorithms show
    budget,                     \* faults the algorithms may still show
    hist,                       \* history: what every invocation ended with
    rawcols                     \* history: each column as first stored

helperVars == <<fpc, inp, out>>
mainVars == <<mpc, log>>
plotVars == <<ppc, plot_out, used>>
inputVars == <<G, gfilt, fault>>
flagVars == <<normalize, save_files>>
tableVars == <<pc, metrics, heap, files, ret, rawcols>>
runnerVars == <<metric, rpc, comp_map, uniq, ci, arr, vfilt, res, calls>>
vars == <<mainVars, plotVars, helperVars, inputVars, flagVars, tableVars, runnerVars, budget, hist>>

EmptyGraph == [n |-> 0, directed |-> FALSE, edges |-> {}]

\* a graph as the caller hands it over: no vertex filtered out
NoFilter(g) == [i \in 1..g.n |-> TRUE]

MainIdle == mpc = "off" /\ log = <<>>

PlotIdle == ppc = "off" /\ plot_out = "none" /\ used = <<>>

HelperIdle == fpc = "off" /\ inp = <<>> /\ out = <<>>

RunnerIdle ==
    /\ metric = "none" /\ rpc = "idle"
    /\ comp_map = <<>> /\ uniq = <<>> /\ ci = 0
    /\ arr = <<>> /\ vfilt = <<>> /\ res = NoneRes /\ calls = <<>>

TableIdle ==
    /\ pc = "off" /\ metrics = <<>> /\ heap = <<>> /\ files = {}
    /\ ret = "none" /\ rawcols = <<>>

\* ------------------------------------------------------------------------
\* _metric_per_component_mapped(G, metric_callable)
\* ------------------------------------------------------------------------
\* lines 16-21: labels, distinct labels, the NaN array, the filter property
RunnerEnter(m) ==
    /\ metric' = m
    /\ comp_map' = label_components(G)
    /\ uniq' = unique(label_components(G))
    /\ arr' = full_nan(G.n)
    /\ vfilt' = [i \in 1..G.n |-> FALSE]
    /\ ci' = 1
    /\ res' = NoneRes
    /\ calls' = <<>>
    /\ rpc' = "loop"

\* mutant of GraphView: the filter is set on the graph (G.set_vertex_filter)
GraphViewInPlace(gf, vf) == [graph |-> vf, view |-> vf]

\* line 31, gt.GraphView(G, vfilt=vfilt_prop): the filter active on G and
\* the filter active on the view
GraphView(gf, vf) == [graph |-> gf, view |-> vf]

\* mutant of mark: the filter is not cleared before the vertices are marked
mark_keeps(vf, vids) ==
    [i \in 1..Len(vf) |-> vf[i] \/ \E j \in 1..Len(vids) : vids[j] = i - 1]

\* lines 29-30: vfilt_prop.a[:] = False; vfilt_prop.a[vids] = True
mark(vf, vids) ==
    [i \in 1..Len(vf) |-> \E j \in 1..Len(vids) : vids[j] = i - 1]

\* lines 23-31: next component, or return arr when the labels are exhausted
LoopHead ==
    /\ rpc = "loop"
    /\ IF ci > Len(uniq)
       THEN /\ rpc' = "returned"
            /\ UNCHANGED <<vfilt, calls, res, gfilt>>
       ELSE LET vids == where_eq(comp_map, uniq[ci])
                sub == GraphView(gfilt, mark(vfilt, vids))
            IN  /\ vfilt' = sub.view
                /\ gfilt' = sub.graph
                /\ calls' = <<>>
                /\ res' = NoneRes
                /\ rpc' = "call"
    /\ UNCHANGED <<metric, comp_map, uniq, ci, arr>>
    /\ UNCHANGED <<G, fault>>
    /\ UNCHANGED <<mainVars, plotVars, helperVars, flagVars, tableVars, budget, hist>>

\* mutant of AfterCall: only the TypeError of the first call is caught
AfterCallUncaught(o, weighted) ==
    IF o.ex = "none" THEN [rpc |-> "splice", res |-> o.res]
    ELSE IF o.ex = "TypeError" /\ weighted THEN [rpc |-> "retry", res |-> NoneRes]
    ELSE [rpc |-> "raised", res |-> NoneRes]

\* mutant of AfterCall: a TypeError is treated like any other exception
AfterCallNoRetry(o, weighted) ==
    IF o.ex = "none" THEN [rpc |-> "splice", res |-> o.res]
    ELSE [rpc |-> "splice", res |-> NoneRes]

\* mutant of AfterCall: the first call is retried after any exception
AfterCallRetriesAll(o, weighted) ==
    IF o.ex = "none" THEN [rpc |-> "splice", res |-> o.res]
    ELSE IF weighted THEN [rpc |-> "retry", res |-> NoneRes]
    ELSE [rpc |-> "splice", res |-> NoneRes]

\* what the try statement of lines 42-50 leaves in res after a call ended o
AfterCall(o, weighted) ==
    IF o.ex = "none" THEN [rpc |-> "splice", res |-> o.res]
    ELSE IF o.ex = "TypeError" /\ weighted THEN [rpc |-> "retry", res |-> NoneRes]
    ELSE [rpc |-> "splice", res |-> NoneRes]

\* line 43: res = metric_callable(G_sub, ew)
CallWeighted ==
    /\ rpc = "call"
    /\ \E iv \in Invocations(metric, G.n, view_vertices(vfilt), fault) :
        LET c == iv.cost
            nx == AfterCall(iv.o, TRUE)
        IN  /\ c <= budget
            /\ budget' = budget - c
            /\ calls' = Append(calls, [weight |-> TRUE, view |-> view_vertices(vfilt),
                                       ex |-> iv.o.ex, inner |-> iv.inner])
            /\ res' = nx.res
            /\ rpc' = nx.rpc
    /\ UNCHANGED <<metric, comp_map, uniq, ci, arr, vfilt>>
    /\ UNCHANGED <<mainVars, plotVars, helperVars, inputVars, flagVars, tableVars, hist>>

\* line 46: res = metric_callable(G_sub), after a TypeError
CallUnweighted ==
    /\ rpc = "retry"
    /\ \E iv \in Invocations(metric, G.n, view_vertices(vfilt), fault) :
        LET c == iv.cost
            nx == AfterCall(iv.o, FALSE)
        IN  /\ c <= budget
            /\ budget' = budget - c
            /\ calls' = Append(calls, [weight |-> FALSE, view |-> view_vertices(vfilt),
                                       ex |-> iv.o.ex, inner |-> iv.inner])
            /\ res' = nx.res
            /\ rpc' = nx.rpc
    /\ UNCHANGED <<metric, comp_map, uniq, ci, arr, vfilt>>
    /\ UNCHANGED <<mainVars, plotVars, helperVars, inputVars, flagVars, tableVars, hist>>

\* lines 57-61: the last item of a tuple that has .a, else the tuple itself
PickFromTuple(r) ==
    IF r.shape = "tuple" /\ \E i \in 1..Len(r.items) : HasA(r.items[i])
    THEN LET last == CHOOSE i \in 1..Len(r.items) :
                        /\ HasA(r.items[i])
                        /\ \A j \in 1..Len(r.items) : HasA(r.items[j]) => j <= i
         IN  r.items[last]
    ELSE r

\* np.asarray(res, dtype=float) accepts r
Convertible(r) ==
    \/ r.shape = "seq"
    \/ r.shape = "tuple" /\ \A i \in 1..Len(r.items) : r.items[i].shape = "scalar"

\* np.asarray(res, dtype=float)
AsArray(r) ==
    IF r.shape = "seq" THEN r.vals
    ELSE [i \in 1..Len(r.items) |-> r.items[i].vals[1]]

\* lines 63-71 raise: float() of a vector value, an unconvertible object,
\* or indexing the 0-d array of a lone number
SpliceRaises(r) ==
    \/ r.shape = "vecprop"
    \/ ~HasA(r) /\ ~Convertible(r)

\* mutant of Spliced: a property map is read by position in the view
SplicedByPosition(a, r, vs) ==
    LET tmp == IF HasA(r) THEN r.vals ELSE AsArray(r)
    IN  [i \in 1..Len(a) |->
            IF \E j \in 1..Len(vs) : vs[j] = i - 1 /\ j <= Len(tmp)
            THEN tmp[CHOOSE j \in 1..Len(vs) : vs[j] = i - 1]
            ELSE a[i]]

\* mutant of Spliced: a plain sequence is written from index 0 of the array
SplicedByGlobalIndex(a, r, vs) ==
    IF HasA(r)
    THEN [i \in 1..Len(a) |->
            IF \E j \in 1..Len(vs) : vs[j] = i - 1 THEN r.vals[i] ELSE a[i]]
    ELSE LET tmp == AsArray(r)
         IN  [i \in 1..Len(a) |->
                IF i <= Len(vs) /\ i <= Len(tmp) THEN tmp[i] ELSE a[i]]

\* lines 63-71: arr after the values of r are written for the view vs
Spliced(a, r, vs) ==
    IF HasA(r)
    THEN [i \in 1..Len(a) |->
            IF \E j \in 1..Len(vs) : vs[j] = i - 1 THEN r.vals[i] ELSE a[i]]
    ELSE LET tmp == AsArray(r)
         IN  [i \in 1..Len(a) |->
                IF \E j \in 1..Len(vs) : vs[j] = i - 1 /\ j <= Len(tmp)
                THEN tmp[CHOOSE j \in 1..Len(vs) : vs[j] = i - 1]
                ELSE a[i]]

\* lines 52-71: skip a component without result, else write its values
Splice ==
    /\ rpc = "splice"
    /\ LET r == PickFromTuple(res)
           vs == view_vertices(vfilt)
       IN  IF res = NoneRes
           THEN /\ hist' = Append(hist, [m |-> metric, c |-> uniq[ci], how |-> "missing", res |-> res, calls |-> calls])
                /\ ci' = ci + 1
                /\ rpc' = "loop"
                /\ UNCHANGED arr
           ELSE IF SpliceRaises(r)
           THEN /\ hist' = Append(hist, [m |-> metric, c |-> uniq[ci], how |-> "raised", res |-> r, calls |-> calls])
                /\ rpc' = "raised"
                /\ UNCHANGED <<ci, arr>>
           ELSE /\ hist' = Append(hist, [m |-> metric, c |-> uniq[ci], how |-> "spliced", res |-> r, calls |-> calls])
                /\ arr' = Spliced(arr, r, vs)
                /\ ci' = ci + 1
                /\ rpc' = "loop"
    /\ UNCHANGED <<metric, comp_map, uniq, vfilt, res, calls>>
    /\ UNCHANGED <<mainVars, plotVars, helperVars, inputVars, flagVars, tableVars, budget>>

RunnerStep == LoopHead \/ CallWeighted \/ CallUnweighted \/ Splice

\* ---- _metric_per_component_mapped called on its own, with any callable
InitRunner ==
    /\ MainIdle
    /\ PlotIdle
    /\ HelperIdle
    /\ TableIdle
    /\ G \in Graphs
    /\ gfilt = NoFilter(G)
    /\ fault \in FaultKinds
    /\ normalize = FALSE /\ save_files = FALSE
    /\ metric = "callable" /\ rpc = "idle"
    /\ comp_map = <<>> /\ uniq = <<>> /\ ci = 0
    /\ arr = <<>> /\ vfilt = <<>> /\ res = NoneRes /\ calls = <<>>
    /\ budget = MaxFail + 2
    /\ hist = <<>>

RunnerCall ==
    /\ pc = "off" /\ rpc = "idle" /\ metric = "callable"
    /\ RunnerEnter("callable")
    /\ UNCHANGED <<mainVars, plotVars, helperVars, inputVars, flagVars, tableVars, budget, hist>>

NextRunner == RunnerCall \/ RunnerStep

SpecRunner == InitRunner /\ [][NextRunner]_vars

\* ------------------------------------------------------------------------
\* compute_and_save_metrics(G, out_dir, prefix, normalize, nthreads, save_files)
\* ------------------------------------------------------------------------
\* the keys of the dict in insertion order
Keys ==
    <<"pagerank", "betweenness", "closeness", "eigenvector", "katz",
      "hits_authority", "hits_hub", "eigentrust", "trust_transitivity">>

MetricNames == {Keys[i] : i \in 1..Len(Keys)}

\* the statements of the function in order
Order ==
    <<"makedirs", "pagerank", "betweenness", "closeness", "eigenvector", "katz",
      "hits", "eigentrust", "trust_transitivity", "sanitize", "normalize",
      "save", "done">>

NextPc(p) == Order[(CHOOSE i \in 1..Len(Order) : Order[i] = p) + 1]

Init ==
    /\ MainIdle
    /\ PlotIdle
    /\ HelperIdle
    /\ RunnerIdle
    /\ G \in Graphs
    /\ gfilt = NoFilter(G)
    /\ fault \in FaultKinds
    /\ normalize = FALSE
    /\ save_files = FALSE
    /\ pc = "makedirs"
    /\ metrics = <<>>
    /\ heap = <<>>
    /\ files = {}
    /\ ret = "none"
    /\ rawcols = <<>>
    /\ budget = MaxFail
    /\ hist = <<>>

\* line 80: os.makedirs(out_dir, exist_ok=True)
MakeDirs ==
    /\ pc = "makedirs"
    /\ files' = files \cup {"out_dir"}
    /\ pc' = NextPc(pc)
    /\ UNCHANGED <<metrics, heap, ret, rawcols>>
    /\ UNCHANGED <<mainVars, plotVars, helperVars, inputVars, flagVars, runnerVars, budget, hist>>

\* metrics[k] = a, a new array object
Store(mt, k, id) == (k :> id) @@ mt

\* the array a whole-graph algorithm hands back through get_array()
WholeArray(l, pat) == [i \in 1..l |-> Score(pat, i - 1)]

WholeOutcomes(n, f) ==
    {Outcome("none", SeqRes(WholeArray(n, "ramp")))}
    \cup CASE f \in {"Exception", "TypeError"} -> {Outcome(f, NoneRes)}
            [] f = "malformed" ->
                {Outcome("none", SeqRes(WholeArray(l, "ramp"))) :
                    l \in {k \in {n - 1, n + 1} : k >= 0}}
            [] OTHER -> {Outcome("none", SeqRes(WholeArray(n, f)))}

WholeCost(n, o) == IF o = Outcome("none", SeqRes(WholeArray(n, "ramp"))) THEN 0 ELSE 1

\* mutants of OnFailure: the exception is not caught; the arrays stored so
\* far are blanked as well
OnFailureReraise(mt, hp, k, n) == [caught |-> FALSE, metrics |-> mt, heap |-> hp]

OnFailureBlanksAll(mt, hp, k, n) ==
    [caught |-> TRUE,
     metrics |-> Store(mt, k, Len(hp) + 1),
     heap |-> Append([i \in 1..Len(hp) |-> full_nan(n)], full_nan(n))]

\* an except clause of lines 87-155 for key k: the exception is caught and
\* metrics[k] becomes a new all-missing array; nothing else changes
OnFailure(mt, hp, k, n) ==
    [caught |-> TRUE,
     metrics |-> Store(mt, k, Len(hp) + 1),
     heap |-> Append(hp, full_nan(n))]

\* lines 85-102: pagerank, betweenness, closeness on the whole graph
WholeGraphMetric(m) ==
    /\ pc = m
    /\ \E o \in WholeOutcomes(G.n, fault) :
        LET f == OnFailure(metrics, heap, m, G.n)
        IN  /\ WholeCost(G.n, o) <= budget
            /\ budget' = budget - WholeCost(G.n, o)
            /\ hist' = Append(hist, [m |-> m, c |-> -1,
                                     how |-> IF o.ex = "none" THEN "spliced" ELSE "missing",
                                     res |-> o.res, calls |-> <<>>])
            /\ IF o.ex = "none"
               THEN /\ heap' = Append(heap, sanitize_array(o.res.vals))
                    /\ metrics' = Store(metrics, m, Len(heap) + 1)
                    /\ rawcols' = Store(rawcols, m, sanitize_array(o.res.vals))
                    /\ pc' = NextPc(pc)
                    /\ UNCHANGED ret
               ELSE IF f.caught
               THEN /\ heap' = f.heap
                    /\ metrics' = f.metrics
                    /\ rawcols' = Store(rawcols, m, full_nan(G.n))
                    /\ pc' = NextPc(pc)
                    /\ UNCHANGED ret
               ELSE /\ pc' = "done"
                    /\ ret' = "raised"
                    /\ UNCHANGED <<heap, metrics, rawcols>>
    /\ UNCHANGED files
    /\ UNCHANGED <<mainVars, plotVars, helperVars, inputVars, flagVars, runnerVars>>

Pagerank == WholeGraphMetric("pagerank")
Betweenness == WholeGraphMetric("betweenness")
Closeness == WholeGraphMetric("closeness")

\* lines 104-116, 134-155: the call of _metric_per_component_mapped
MetricStart(m) ==
    /\ pc = m
    /\ rpc = "idle"
    /\ RunnerEnter(m)
    /\ UNCHANGED <<mainVars, plotVars, helperVars, inputVars, flagVars, tableVars, budget, hist>>

\* its return value stored, or its exception caught
MetricEnd(m) ==
    /\ pc = m
    /\ rpc \in {"returned", "raised"}
    /\ LET f == OnFailure(metrics, heap, m, G.n)
       IN  IF rpc = "returned"
           THEN /\ heap' = Append(heap, arr)
                /\ metrics' = Store(metrics, m, Len(heap) + 1)
                /\ rawcols' = Store(rawcols, m, arr)
                /\ pc' = NextPc(pc)
                /\ UNCHANGED ret
           ELSE IF f.caught
           THEN /\ heap' = f.heap
                /\ metrics' = f.metrics
                /\ rawcols' = Store(rawcols, m, full_nan(G.n))
                /\ pc' = NextPc(pc)
                /\ UNCHANGED ret
           ELSE /\ pc' = "done"
                /\ ret' = "raised"
                /\ UNCHANGED <<heap, metrics, rawcols>>
    /\ metric' = "none" /\ rpc' = "idle"
    /\ comp_map' = <<>> /\ uniq' = <<>> /\ ci' = 0
    /\ arr' = <<>> /\ vfilt' = <<>> /\ res' = NoneRes /\ calls' = <<>>
    /\ UNCHANGED files
    /\ UNCHANGED <<mainVars, plotVars, helperVars, inputVars, flagVars, budget, hist>>

\* gt.hits(G) returns (eigenvalue, authority, hub)
HitsTuple(n, pat) ==
    TupleRes(<<Scalar(Num(1)),
               VProp([i \in 1..n |-> Score(pat, i - 1)]),
               VProp([i \in 1..n |-> Score(pat, i)])>>)

HitsOutcomes(n, f) ==
    {Outcome("none", HitsTuple(n, "ramp"))}
    \cup CASE f \in {"Exception", "TypeError"} -> {Outcome(f, NoneRes)}
            [] f = "malformed" ->
                {Outcome("none", SeqRes(WholeArray(n, "ramp"))),
                 Outcome("none", TupleRes(<<Scalar(Num(1)), Scalar(Num(0))>>))}
            [] OTHER -> {Outcome("none", HitsTuple(n, f))}

HitsCost(n, o) == IF o = Outcome("none", HitsTuple(n, "ramp")) THEN 0 ELSE 1

\* next((x for x in h_res if hasattr(x, "a")), None), as an index or 0
FirstWithA(items) ==
    IF \E i \in 1..Len(items) : HasA(items[i])
    THEN CHOOSE i \in 1..Len(items) :
            HasA(items[i]) /\ \A j \in 1..Len(items) : HasA(items[j]) => i <= j
    ELSE 0

\* mutant of LastWithA: the tuple is not reversed
LastWithAForward(items) == FirstWithA(items)

\* next((x for x in reversed(h_res) if hasattr(x, "a")), None), as an index or 0
LastWithA(items) ==
    IF \E i \in 1..Len(items) : HasA(items[i])
    THEN CHOOSE i \in 1..Len(items) :
            HasA(items[i]) /\ \A j \in 1..Len(items) : HasA(items[j]) => j <= i
    ELSE 0

\* lines 118-132: the two HITS columns; a result that is no tuple gives one
\* array object under both keys
Hits ==
    /\ pc = "hits"
    /\ \E o \in HitsOutcomes(G.n, fault) :
        /\ HitsCost(G.n, o) <= budget
        /\ budget' = budget - HitsCost(G.n, o)
        /\ hist' = Append(hist, [m |-> "hits", c |-> -1,
                                 how |-> IF o.ex = "none" THEN "spliced" ELSE "missing",
                                 res |-> o.res, calls |-> <<>>])
        /\ IF o.ex = "none" /\ o.res.shape = "tuple"
           THEN LET fa == FirstWithA(o.res.items)
                    la == LastWithA(o.res.items)
                    auth == IF fa # 0 THEN sanitize_array(o.res.items[fa].vals)
                            ELSE full_nan(G.n)
                    hub == IF la # 0 THEN sanitize_array(o.res.items[la].vals)
                           ELSE full_nan(G.n)
                IN  /\ heap' = heap \o <<auth, hub>>
                    /\ metrics' = Store(Store(metrics, "hits_authority", Len(heap) + 1),
                                        "hits_hub", Len(heap) + 2)
                    /\ rawcols' = Store(Store(rawcols, "hits_authority", auth),
                                        "hits_hub", hub)
                    /\ pc' = NextPc(pc)
                    /\ UNCHANGED ret
           ELSE IF o.ex = "none"
           THEN LET tmp == sanitize_array(o.res.vals)
                IN  /\ heap' = Append(heap, tmp)
                    /\ metrics' = Store(Store(metrics, "hits_authority", Len(heap) + 1),
                                        "hits_hub", Len(heap) + 1)
                    /\ rawcols' = Store(Store(rawcols, "hits_authority", tmp),
                                        "hits_hub", tmp)
                    /\ pc' = NextPc(pc)
                    /\ UNCHANGED ret
           ELSE IF OnFailure(metrics, heap, "hits_authority", G.n).caught
           THEN LET f1 == OnFailure(metrics, heap, "hits_authority", G.n)
                    f2 == OnFailure(f1.metrics, f1.heap, "hits_hub", G.n)
                IN  /\ heap' = f2.heap
                    /\ metrics' = f2.metrics
                    /\ rawcols' = Store(Store(rawcols, "hits_authority", full_nan(G.n)),
                                        "hits_hub", full_nan(G.n))
                    /\ pc' = NextPc(pc)
                    /\ UNCHANGED ret
           ELSE /\ pc' = "done"
                /\ ret' = "raised"
                /\ UNCHANGED <<heap, metrics, rawcols>>
    /\ UNCHANGED files
    /\ UNCHANGED <<mainVars, plotVars, helperVars, inputVars, flagVars, runnerVars>>

\* mutant of AlignLength: the array is kept as it is
AlignLengthKeeps(a, n) == a

\* mutant of AlignLength: the new array is np.zeros
AlignLengthZeros(a, n) ==
    [i \in 1..n |-> IF i <= Len(a) THEN a[i] ELSE Num(0)]

\* lines 161-162: a NaN array of length n holding the first min(len, n) entries
AlignLength(a, n) ==
    [i \in 1..n |-> IF i <= Len(a) THEN a[i] ELSE NaN]

\* lines 158-163, from the i-th key on: sanitize in place, realign into a
\* new array when the length is not n
RECURSIVE SanitizeLoop(_, _, _, _)
SanitizeLoop(i, n, mt, hp) ==
    IF i > Len(Keys) THEN [metrics |-> mt, heap |-> hp]
    ELSE LET k == Keys[i]
             hp1 == [hp EXCEPT ![mt[k]] = sanitize_array(hp[mt[k]])]
         IN  IF Len(hp1[mt[k]]) # n
             THEN SanitizeLoop(i + 1, n, [mt EXCEPT ![k] = Len(hp1) + 1],
                               Append(hp1, AlignLength(hp1[mt[k]], n)))
             ELSE SanitizeLoop(i + 1, n, mt, hp1)

SanitizeLengths ==
    /\ pc = "sanitize"
    /\ LET r == SanitizeLoop(1, G.n, metrics, heap)
       IN  metrics' = r.metrics /\ heap' = r.heap
    /\ pc' = NextPc(pc)
    /\ UNCHANGED <<files, ret, rawcols>>
    /\ UNCHANGED <<mainVars, plotVars, helperVars, inputVars, flagVars, runnerVars, budget, hist>>

\* lines 166-167, from the i-th key on: minmax_normalize works in place
RECURSIVE NormalizeLoop(_, _, _)
NormalizeLoop(i, mt, hp) ==
    IF i > Len(Keys) THEN hp
    ELSE NormalizeLoop(i + 1, mt,
                       [hp EXCEPT ![mt[Keys[i]]] = minmax_normalize(hp[mt[Keys[i]]])])

\* lines 165-167; the argument normalize is first read here, and the
\* model draws it here
NormalizeAll ==
    /\ pc = "normalize"
    /\ \E flag \in BOOLEAN :
        /\ normalize' = flag
        /\ heap' = IF flag THEN NormalizeLoop(1, metrics, heap) ELSE heap
    /\ pc' = NextPc(pc)
    /\ UNCHANGED <<metrics, files, ret, rawcols, save_files>>
    /\ UNCHANGED <<mainVars, plotVars, helperVars, inputVars, runnerVars, budget, hist>>

\* the values of save_files: any for a direct call, True from main()
\* (main.py line 30)
SaveFlags == IF mpc = "compute" THEN {TRUE} ELSE BOOLEAN

\* lines 169-179: the two files, then return; the argument save_files is
\* first read here, and the model draws it here
Save ==
    /\ pc = "save"
    /\ \E flag \in SaveFlags :
        /\ save_files' = flag
        /\ files' = IF flag THEN files \cup {"npz", "csv"} ELSE files
    /\ ret' = "returned"
    /\ pc' = NextPc(pc)
    /\ UNCHANGED <<metrics, heap, rawcols, normalize>>
    /\ UNCHANGED <<mainVars, plotVars, helperVars, inputVars, runnerVars, budget, hist>>

Next ==
    \/ MakeDirs
    \/ Pagerank
    \/ Betweenness
    \/ Closeness
    \/ \E m \in PerComponentMetrics : MetricStart(m)
    \/ RunnerStep
    \/ \E m \in PerComponentMetrics : MetricEnd(m)
    \/ Hits
    \/ SanitizeLengths
    \/ NormalizeAll
    \/ Save

Spec == Init /\ [][Next]_vars

\* ------------------------------------------------------------------------
\* main.py: main()
\* ------------------------------------------------------------------------
InitMain ==
    /\ mpc = "load" /\ log = <<>>
    /\ PlotIdle
    /\ HelperIdle
    /\ RunnerIdle
    /\ TableIdle
    /\ G = EmptyGraph /\ gfilt = <<>>
    /\ fault \in FaultKinds
    /\ normalize = FALSE /\ save_files = FALSE
    /\ budget = MaxFail
    /\ hist = <<>>

\* mutant of OnLoadFailure: the error is logged and main goes on
OnLoadFailureGoesOn == [mpc |-> "compute", log |-> <<"error">>, pc |-> "makedirs"]

\* lines 25-27: except Exception: logger.error(...); return
OnLoadFailure == [mpc |-> "failed", log |-> <<"error">>, pc |-> "off"]

\* lines 23-30: gt.load_graph(args.graph) returns a graph, and main calls
\* compute_and_save_metrics on it, or it raises
LoadGraph ==
    /\ mpc = "load"
    /\ \/ \E g \in Graphs :
            /\ G' = g
            /\ gfilt' = NoFilter(g)
            /\ mpc' = "compute"
            /\ pc' = "makedirs"
            /\ UNCHANGED log
       \/ /\ mpc' = OnLoadFailure.mpc
          /\ log' = OnLoadFailure.log
          /\ pc' = OnLoadFailure.pc
          /\ UNCHANGED <<G, gfilt>>
    /\ UNCHANGED <<metrics, heap, files, ret, rawcols, fault>>
    /\ UNCHANGED <<plotVars, helperVars, flagVars, runnerVars, budget, hist>>

\* line 30 returns (or its exception leaves main), then main returns
MainReturn ==
    /\ mpc = "compute"
    /\ pc = "done"
    /\ mpc' = IF ret = "raised" THEN "raised" ELSE "finished"
    /\ UNCHANGED log
    /\ UNCHANGED <<plotVars, helperVars, inputVars, flagVars, tableVars, runnerVars, budget, hist>>

NextMain == LoadGraph \/ Next \/ MainReturn

SpecMain == InitMain /\ [][NextMain]_vars

\* ------------------------------------------------------------------------
\* the helpers of utils.py applied to every bounded column
\* ------------------------------------------------------------------------
\* all arrays of length at most MaxLen over the raw values
Columns == UNION {[1..l -> RawValues] : l \in 0..MaxLen}

InitNorm ==
    /\ fpc = "start"
    /\ inp \in Columns
    /\ out = <<>>
    /\ MainIdle
    /\ PlotIdle
    /\ G = EmptyGraph /\ gfilt = <<>> /\ normalize = FALSE /\ save_files = FALSE
    /\ fault = "Exception"
    /\ TableIdle
    /\ RunnerIdle
    /\ budget = 0
    /\ hist = <<>>

CallSanitize ==
    /\ fpc = "start"
    /\ out' = sanitize_array(inp)
    /\ fpc' = "sanitized"
    /\ UNCHANGED inp
    /\ UNCHANGED <<mainVars, plotVars, inputVars, flagVars, tableVars, runnerVars, budget, hist>>

CallNormalize ==
    /\ fpc = "start"
    /\ out' = minmax_normalize(inp)
    /\ fpc' = "normalized"
    /\ UNCHANGED inp
    /\ UNCHANGED <<mainVars, plotVars, inputVars, flagVars, tableVars, runnerVars, budget, hist>>

\* generator.py lines 166-167 for a second key bound to the same array:
\* minmax_normalize works in place, so the array normalized for the first
\* key is the argument of the call for the second
CallNormalizeAgain ==
    /\ fpc = "normalized"
    /\ out' = minmax_normalize(out)
    /\ fpc' = "renormalized"
    /\ UNCHANGED inp
    /\ UNCHANGED <<mainVars, plotVars, inputVars, flagVars, tableVars, runnerVars, budget, hist>>

NextNorm == CallSanitize \/ CallNormalize \/ CallNormalizeAgain

SpecNorm == InitNorm /\ [][NextNorm]_vars

\* ------------------------------------------------------------------------
\* plotting/compare_plots.py: plot_box(metrics_dict, out=...)
\* ------------------------------------------------------------------------
\* the keys of the table handed to plot_box, in insertion order
PlotKeys == <<"metric_a", "metric_b">>

\* the entries of its columns: missing, zero, and positive values more than
\* two orders of magnitude apart
PlotValues == {NaN, Num(0), Num(1), Frac(1, 128)}

\* the tables: equally long columns, as compute_and_save_metrics returns them
PlotTables == UNION {[1..Len(PlotKeys) -> [1..l -> PlotValues]] : l \in 0..(MaxLen - 1)}

InitPlot ==
    /\ ppc = "start"
    /\ plot_out \in {"none", "png"}
    /\ used = <<>>
    /\ heap \in PlotTables
    /\ metrics = [k \in {PlotKeys[i] : i \in 1..Len(PlotKeys)} |->
                    CHOOSE i \in 1..Len(PlotKeys) : PlotKeys[i] = k]
    /\ pc = "off" /\ files = {} /\ ret = "none" /\ rawcols = <<>>
    /\ MainIdle
    /\ HelperIdle
    /\ RunnerIdle
    /\ G = EmptyGraph /\ gfilt = <<>> /\ normalize = FALSE /\ save_files = FALSE
    /\ fault = "Exception"
    /\ budget = 0
    /\ hist = <<>>

\* mutant of dropna: nothing is dropped
dropna_keeps(a) == a

\* line 191, df[k].dropna(): the entries that are not missing, in order
dropna(a) == SelectSeq(a, LAMBDA x : ~isnan(x))

\* data[data > 0]
positive(a) == SelectSeq(a, LAMBDA x : isfinite(x) /\ x.n > 0)

RECURSIVE concatenate(_)
concatenate(ss) == IF ss = <<>> THEN <<>> ELSE Head(ss) \o concatenate(Tail(ss))

\* lines 201-207: log10(max) - log10(min) > 2 over the positive values,
\* that is max > 100 * min
use_log_scale(data) ==
    LET pos == positive(concatenate(data))
    IN  /\ pos # <<>>
        /\ \E i, j \in 1..Len(pos) :
                pos[i].n * pos[j].d > 100 * pos[j].n * pos[i].d

\* lines 210-218: a column as drawn on the log scale, log10 of its positive
\* values or the single value 0
transformed(a) ==
    IF positive(a) # <<>> THEN [vals |-> positive(a), log10 |-> TRUE]
    ELSE [vals |-> <<Num(0)>>, log10 |-> FALSE]

\* lines 181-246: plot_box with metric_names=None
plot_box ==
    /\ ppc = "start"
    /\ LET names == SelectSeq(PlotKeys, LAMBDA k : dropna(heap[metrics[k]]) # <<>>)
           data == [j \in 1..Len(names) |-> dropna(heap[metrics[names[j]]])]
       IN  IF data = <<>>
           THEN /\ used' = <<>>
                /\ UNCHANGED files
           ELSE /\ used' = IF use_log_scale(data)
                           THEN [j \in 1..Len(data) |-> transformed(data[j])]
                           ELSE [j \in 1..Len(data) |->
                                    [vals |-> data[j], log10 |-> FALSE]]
                /\ files' = IF plot_out # "none" THEN files \cup {plot_out} ELSE files
    /\ ppc' = "returned"
    /\ UNCHANGED <<plot_out, pc, metrics, heap, ret, rawcols>>
    /\ UNCHANGED <<mainVars, helperVars, inputVars, flagVars, runnerVars, budget, hist>>

NextPlot == plot_box

SpecPlot == InitPlot /\ [][NextPlot]_vars

\* ------------------------------------------------------------------------
\* properties of minmax_normalize (specification SpecNorm)
\* ------------------------------------------------------------------------
\* positions of a column that hold a finite value / the missing marker
FinitePos(a) == {i \in 1..Len(a) : isfinite(a[i])}
MissingPos(a) == {i \in 1..Len(a) : isnan(a[i])}
NoInfinity(a) == \A i \in 1..Len(a) : ~isinf(a[i])
InUnit(x) == isfinite(x) /\ ~FLess(x, Num(0)) /\ ~FLess(Num(1), x)

\* C8: for a column (finite or missing entries) with at least two distinct
\* valid values, minmax_normalize returns a column of the same length where
\* the entries of the smallest valid value are 0, those of the largest are
\* 1, every valid entry lies in [0,1], and the missing positions are
\* exactly those of the input.
C8_UnitRange ==
    (/\ fpc = "normalized"
     /\ NoInfinity(inp)
     /\ Cardinality({inp[i] : i \in FinitePos(inp)}) >= 2)
    => /\ Len(out) = Len(inp)
       /\ MissingPos(out) = MissingPos(inp)
       /\ \A i \in FinitePos(inp) :
            /\ InUnit(out[i])
            /\ (inp[i] = nanmin(inp)) => (out[i] = Num(0))
            /\ (inp[i] = nanmax(inp)) => (out[i] = Num(1))

\* C9: for a column whose valid values are all equal (one valid value
\* included), minmax_normalize maps every valid entry to 0 and leaves every
\* missing entry missing; no valid entry becomes missing.
C9_ConstantToZero ==
    (/\ fpc = "normalized"
     /\ FinitePos(inp) # {}
     /\ Cardinality({inp[i] : i \in FinitePos(inp)}) = 1)
    => /\ Len(out) = Len(inp)
       /\ \A i \in FinitePos(inp) : out[i] = Num(0)
       /\ \A i \in MissingPos(inp) : out[i] = NaN

C9_Witness ==
    /\ fpc = "normalized"
    /\ Len(inp) = 3
    /\ inp[1] = Num(FMax) /\ inp[2] = NaN /\ inp[3] = Num(FMax)
    /\ out = <<Num(0), NaN, Num(0)>>

\* C10: for a column with no valid entry (all missing, the zero-length
\* column included), minmax_normalize returns a column of the same length
\* with every entry still missing.
C10_AllMissingUnchanged ==
    (fpc = "normalized" /\ MissingPos(inp) = 1..Len(inp))
    => /\ Len(out) = Len(inp)
       /\ \A i \in 1..Len(out) : out[i] = NaN

C10_Witness ==
    /\ fpc = "normalized"
    /\ Len(inp) = 2
    /\ MissingPos(inp) = {1, 2}
    /\ out = <<NaN, NaN>>

\* ------------------------------------------------------------------------
\* properties of the runner and of the table
\* ------------------------------------------------------------------------
\* the array the table holds under key k
Column(k) == heap[metrics[k]]

\* the vertices labelled c
CompVertices(c) == {v \in Vertices(G) : At(label_components(G), v) = c}

\* the value a result r, returned on the view with vertices vs, holds for v
ValueFor(r, vs, v) ==
    IF HasA(r) THEN At(r.vals, v)
    ELSE LET pos == CHOOSE j \in 1..Len(vs) : vs[j] = v
         IN  IF pos <= Len(AsArray(r)) THEN AsArray(r)[pos] ELSE NaN

\* the algorithm behind a key
AlgorithmOf(k) == IF k \in {"hits_authority", "hits_hub"} THEN "hits" ELSE k

\* the history entries of algorithm m
EntriesOf(m) == {i \in 1..Len(hist) : hist[i].m = m}

FiniteOrMissing(x) == isfinite(x) \/ isnan(x)

AllMissing(a, n) == Len(a) = n /\ \A i \in 1..Len(a) : isnan(a[i])

\* C1: when compute_and_save_metrics returns, every column of the table
\* has exactly N entries, whatever the algorithms did (result of the right
\* length, of a wrong length, exception) and also for N = 0.
C1_ColumnsHaveLengthN ==
    pc \in {"normalize", "save", "done"}
    => \A k \in DOMAIN metrics : Len(Column(k)) = G.n

C1_Witness ==
    /\ pc = "done"
    /\ G.n = 2
    /\ \E i \in EntriesOf("pagerank") : Len(hist[i].res.vals) = 3
    /\ Len(rawcols["pagerank"]) = 3
    /\ Len(Column("pagerank")) = 2

\* C2: whatever algorithm raises on whatever component, no exception leaves
\* compute_and_save_metrics, and with save_files = False the run ends by
\* returning a table that holds all nine metric names.
C2_ReturnsAllNine ==
    /\ ret # "raised"
    /\ (pc = "done" /\ ~save_files)
       => /\ ret = "returned"
          /\ DOMAIN metrics = MetricNames

C2_Witness ==
    /\ pc = "done"
    /\ ~save_files
    /\ ret = "returned"
    /\ G.n = 2
    /\ \E i \in EntriesOf("katz") : hist[i].how = "missing" /\ hist[i].c = 1
    /\ fault \in {"Exception", "TypeError"}

\* C3: in _metric_per_component_mapped a component whose invocation raises
\* or returns nothing keeps the missing marker, the loop goes on to the
\* remaining components, and the entries of every other component are
\* those of that component's own result.
C3_FailedComponentIsolated ==
    /\ (rpc = "raised") => (hist # <<>> /\ hist[Len(hist)].how = "raised")
    /\ (rpc = "returned") => (Len(hist) = Len(uniq))
    /\ (rpc \in {"loop", "call", "retry", "splice", "returned"})
       => \A i \in 1..Len(hist) :
            \A v \in CompVertices(hist[i].c) :
                At(arr, v) = IF hist[i].how = "missing" THEN NaN
                             ELSE ValueFor(hist[i].res, SortSet(CompVertices(hist[i].c)), v)

C3_Witness ==
    /\ rpc = "returned"
    /\ Len(hist) = 2
    /\ hist[1].how = "missing"
    /\ hist[2].how = "spliced"
    /\ fault = "Exception"
    /\ At(arr, 0) = NaN
    /\ isfinite(At(arr, 1))

\* the final column that the column first stored under k leads to
Finished(a) ==
    IF normalize THEN minmax_normalize(AlignLength(sanitize_array(a), G.n))
    ELSE AlignLength(sanitize_array(a), G.n)

\* C4: a metric whose algorithm fails on every invocation gets a column of
\* N missing markers, and every metric's final column is the one its own
\* stored result leads to: the failure of one metric changes or removes no
\* other column.
C4_MetricFailureIsolated ==
    pc = "done"
    => /\ DOMAIN metrics = MetricNames
       /\ \A k \in MetricNames :
            /\ (/\ EntriesOf(AlgorithmOf(k)) # {}
                /\ \A i \in EntriesOf(AlgorithmOf(k)) : hist[i].how = "missing")
               => AllMissing(Column(k), G.n)
            /\ Column(k) = Finished(rawcols[k])

C4_Witness ==
    /\ pc = "done"
    /\ G.n = 2
    /\ fault = "Exception"
    /\ EntriesOf("closeness") # {}
    /\ \A i \in EntriesOf("closeness") : hist[i].how = "missing"
    /\ AllMissing(Column("closeness"), 2)
    /\ \A k \in MetricNames \ {"closeness"} :
            \A v \in Vertices(G) : isfinite(At(Column(k), v))

\* C5: an invocation whose result has an invalid shape leaves only its own
\* component missing: the values already produced for the other components
\* of the same metric are kept in the column.
C5_InvalidShapeLocal ==
    pc = "done"
    => \A i \in 1..Len(hist) :
        (hist[i].m \in PerComponentMetrics /\ hist[i].how = "raised")
        => \A j \in EntriesOf(hist[i].m) :
            hist[j].how = "spliced"
            => \A v \in CompVertices(hist[j].c) :
                At(rawcols[hist[i].m], v)
                    = ValueFor(hist[j].res, SortSet(CompVertices(hist[j].c)), v)

C7_NoInfinityInTable ==
    pc = "done"
    => \A k \in DOMAIN metrics :
        \A i \in 1..Len(Column(k)) : FiniteOrMissing(Column(k)[i])

C7_Witness ==
    /\ pc = "done"
    /\ ~normalize
    /\ fault = "ninf"
    /\ G.n = 2
    /\ \E i \in EntriesOf("pagerank") :
        hist[i].how = "spliced" /\ hist[i].res.vals[1] = NInf
    /\ Column("pagerank")[1] = NaN

\* ------------------------------------------------------------------------
\* sanitize_array (specification SpecNorm)
\* ------------------------------------------------------------------------
\* C11: sanitize_array returns an array of the length of its input where
\* every position that held +inf or -inf holds the missing marker and every
\* other position (finite or missing) holds what it held.
C11_SanitizeReplacesInfinities ==
    fpc = "sanitized"
    => /\ Len(out) = Len(inp)
       /\ \A i \in 1..Len(inp) :
            out[i] = IF inp[i] \in {PInf, NInf} THEN NaN ELSE inp[i]

C11_Witness ==
    /\ fpc = "sanitized"
    /\ inp = <<PInf, Num(1), NInf>>
    /\ out = <<NaN, Num(1), NaN>>

\* ------------------------------------------------------------------------
\* table assembly
\* ------------------------------------------------------------------------
\* C12: a column stored with a length L other than N never makes the run
\* raise; after lines 158-163 it has N entries: for L < N the L entries at
\* their positions followed by missing markers, for L > N the first N
\* entries.
C12_PadOrTruncate ==
    /\ ret # "raised"
    /\ (pc \in {"normalize", "save", "done"} /\ ~normalize)
       => \A k \in DOMAIN metrics :
            LET L == Len(rawcols[k])
            IN  L # G.n
                => /\ Len(Column(k)) = G.n
                   /\ \A i \in 1..G.n :
                        Column(k)[i] = IF i <= L THEN sanitize_array(rawcols[k])[i]
                                       ELSE NaN

C12_Witness ==
    /\ pc = "normalize"
    /\ G.n = 2
    /\ Len(rawcols["closeness"]) = 1
    /\ isfinite(rawcols["closeness"][1])
    /\ Column("closeness") = <<rawcols["closeness"][1], NaN>>

\* ------------------------------------------------------------------------
\* what the algorithms are invoked on
\* ------------------------------------------------------------------------
\* the labels of the components of G
Labels == {label_components(G)[i] : i \in 1..G.n}

RECURSIVE WeakReaches(_, _, _, _)
WeakReaches(g, u, v, k) ==
    \/ u = v
    \/ k > 0 /\ \E w \in Vertices(g) :
                /\ (<<u, w>> \in g.edges \/ <<w, u>> \in g.edges)
                /\ WeakReaches(g, w, v, k - 1)

\* C14: the labelling the runner uses gives two vertices the same label
\* exactly when they are connected with edge directions ignored (weak
\* connectivity of a directed graph, connectivity of an undirected one);
\* the two ends of a single directed edge share a label.
C14_WeakConnectivityLabels ==
    rpc # "idle"
    => \A u, v \in Vertices(G) :
        (At(comp_map, u) = At(comp_map, v)) <=> WeakReaches(G, u, v, G.n)

\* ------------------------------------------------------------------------
\* the retry without weight and the writes of one iteration
\* ------------------------------------------------------------------------
\* C15: an iteration invokes the callable with (view, weight); a second
\* invocation happens exactly when the first raised TypeError, on the same
\* view and without weight; when the last invocation raised, the component
\* stays missing and the loop moves on; when the second returned a result,
\* the result is spliced as one of a first invocation is.
C15_RetryWithoutWeight ==
    /\ (rpc = "retry")
       => (Len(calls) = 1 /\ calls[1].weight /\ calls[1].ex = "TypeError")
    /\ \A i \in 1..Len(hist) :
        LET cs == hist[i].calls
            n == Len(cs)
        IN  /\ n \in {1, 2}
            /\ cs[1].weight
            /\ cs[1].view = SortSet(CompVertices(hist[i].c))
            /\ (n = 2) <=> (cs[1].ex = "TypeError")
            /\ (n = 2) => (~cs[2].weight /\ cs[2].view = cs[1].view)
            /\ (cs[n].ex # "none")
               => /\ hist[i].how = "missing"
                  /\ \A v \in CompVertices(hist[i].c) : At(arr, v) = NaN
                  /\ (rpc = "returned" => Len(hist) = Len(uniq))
            /\ (n = 2 /\ cs[2].ex = "none")
               => /\ (hist[i].how = "missing") => (hist[i].res = NoneRes)
                  /\ (hist[i].how = "spliced" /\ rpc # "raised")
                     => \A v \in CompVertices(hist[i].c) :
                          At(arr, v) = ValueFor(hist[i].res,
                                                SortSet(CompVertices(hist[i].c)), v)

C15_Witness ==
    /\ rpc = "returned"
    /\ G.n = 2
    /\ Len(hist) = 2
    /\ Len(hist[1].calls) = 2
    /\ hist[1].calls[2].ex = "none"
    /\ hist[1].how = "spliced"
    /\ isfinite(At(arr, 0))
    /\ Len(hist[2].calls) = 2
    /\ hist[2].calls[2].ex = "TypeError"
    /\ hist[2].how = "missing"
    /\ At(arr, 1) = NaN

\* C16: an iteration that got a per-vertex container writes the value of
\* each vertex v of its component at index v of the result array and
\* leaves the index of every vertex of another component as it was; an
\* iteration of a failed component changes no index.
C16_WritesOwnIndicesOnly ==
    [][(rpc = "splice" /\ rpc' = "loop")
       => LET e == hist'[Len(hist')]
          IN  IF e.how = "missing"
              THEN arr' = arr
              ELSE HasA(e.res)
                   => \A v \in Vertices(G) :
                        At(arr', v) = IF v \in CompVertices(uniq[ci])
                                      THEN At(e.res.vals, v)
                                      ELSE At(arr, v)]_vars

C16_Witness ==
    /\ rpc = "returned"
    /\ G.n = 2
    /\ Len(hist) = 2
    /\ hist[1].how = "spliced" /\ HasA(hist[1].res)
    /\ hist[2].how = "spliced" /\ HasA(hist[2].res)
    /\ At(arr, 0) = At(hist[1].res.vals, 0)
    /\ At(arr, 1) = At(hist[2].res.vals, 1)
    /\ At(arr, 0) # At(arr, 1)

\* ------------------------------------------------------------------------
\* the two HITS columns
\* ------------------------------------------------------------------------
\* the items of a tuple that are per-vertex maps, in order
MapsOf(r) ==
    LET idx == SortSet({i \in 1..Len(r.items) : HasA(r.items[i])})
    IN  [j \in 1..Len(idx) |-> r.items[idx[j]].vals]

\* C17: when gt.hits returns a tuple holding per-vertex maps, the table has
\* two separate columns, hits_authority from the first map of the tuple and
\* hits_hub from the last, each of length N and each, with normalize on,
\* normalized by its own minimum and maximum.
C17_HitsTwoColumns ==
    pc = "done"
    => \A i \in EntriesOf("hits") :
        (hist[i].how = "spliced" /\ hist[i].res.shape = "tuple"
            /\ MapsOf(hist[i].res) # <<>>)
        => LET maps == MapsOf(hist[i].res)
               first == sanitize_array(maps[1])
               last == sanitize_array(maps[Len(maps)])
           IN  /\ metrics["hits_authority"] # metrics["hits_hub"]
               /\ Len(Column("hits_authority")) = G.n
               /\ Len(Column("hits_hub")) = G.n
               /\ Column("hits_authority")
                    = IF normalize THEN minmax_normalize(first) ELSE first
               /\ Column("hits_hub")
                    = IF normalize THEN minmax_normalize(last) ELSE last

C17_Witness ==
    /\ pc = "done"
    /\ normalize
    /\ G.n = 2
    /\ \E i \in EntriesOf("hits") :
        /\ hist[i].res.shape = "tuple"
        /\ MapsOf(hist[i].res) = <<<<Num(0), Num(1)>>, <<Num(1), Num(2)>>>>
    /\ Column("hits_authority") = <<Num(0), Num(1)>>
    /\ Column("hits_hub") = <<Num(0), Num(1)>>
    /\ metrics["hits_authority"] # metrics["hits_hub"]

\* ------------------------------------------------------------------------
\* the source vertex of trust_transitivity
\* ------------------------------------------------------------------------
\* the calls of trust_call made so far
TrustCalls ==
    UNION {{hist[i].calls[j] : j \in 1..Len(hist[i].calls)} :
            i \in EntriesOf("trust_transitivity")}
    \cup (IF metric = "trust_transitivity"
          THEN {calls[j] : j \in 1..Len(calls)} ELSE {})

\* C18 as stated: every invocation of the trust algorithm on a non-empty
\* view passes the first vertex of the view as source, and a view without
\* vertices leads to no invocation.
C18_SourceAlwaysFirstVertex ==
    \A c \in TrustCalls :
        IF c.view = <<>> THEN c.inner = <<>>
        ELSE \A j \in 1..Len(c.inner) : c.inner[j].source = c.view[1]

\* C18 amended: every call of trust_call gets a non-empty view (the
\* shortcut for a view without vertices is never taken in a run) and first
\* invokes the trust algorithm with the first vertex of the view as source;
\* there is a second invocation exactly when the first raised TypeError,
\* and it passes no source.
C18_SourceFirstThenNone ==
    \A c \in TrustCalls :
        /\ c.view # <<>>
        /\ Len(c.inner) \in {1, 2}
        /\ c.inner[1].source = c.view[1]
        /\ \A v \in {c.view[j] : j \in 1..Len(c.view)} : c.view[1] <= v
        /\ (Len(c.inner) = 2) <=> (c.inner[1].ex = "TypeError")
        /\ (Len(c.inner) = 2) => (c.inner[2].source = -1)

C18_Witness ==
    /\ pc = "done"
    /\ \E c \in TrustCalls :
        /\ c.view = <<0, 1>>
        /\ Len(c.inner) = 2
        /\ c.inner[1] = [source |-> 0, ex |-> "TypeError"]
        /\ c.inner[2] = [source |-> -1, ex |-> "none"]
    /\ AllMissing(Column("trust_transitivity"), 2)

\* ------------------------------------------------------------------------
\* the command line entry point (specification SpecMain)
\* ------------------------------------------------------------------------
\* C19: when loading the graph fails, main reports an error (a record at
\* ERROR level) and ends without calling compute_and_save_metrics: no
\* directory or metric file is written and no algorithm is invoked; the
\* computation is entered only with a graph that was loaded.
C19_LoadFailureIsFatal ==
    /\ (mpc = "failed")
       => /\ log = <<"error">>
          /\ pc = "off"
          /\ files = {}
          /\ hist = <<>> /\ metrics = <<>> /\ ret = "none"
    /\ (pc # "off")
       => /\ log = <<>>
          /\ mpc \in {"compute", "finished", "raised"}
          /\ gfilt = NoFilter(G)
    /\ (mpc = "finished") => (files = {"out_dir", "npz", "csv"})

C19_Witness ==
    /\ mpc = "failed"
    /\ log = <<"error">>
    /\ pc = "off"
    /\ files = {}

\* ------------------------------------------------------------------------
\* the caller's graph
\* ------------------------------------------------------------------------
\* C20: no step of a run changes the caller's graph: its vertices, its
\* edges and the vertex filter active on it stay what they were, whether
\* invocations succeed or fail; only the component views are filtered.
C20_GraphOnlyRead ==
    [][G' = G /\ gfilt' = gfilt]_vars

C20_Witness ==
    /\ pc = "katz"
    /\ rpc = "call"
    /\ G.n = 2
    /\ Len(hist) > 3
    /\ hist[Len(hist)].m = "katz" /\ hist[Len(hist)].how = "missing"
    /\ \E i \in EntriesOf("eigenvector") : hist[i].how = "spliced"
    /\ vfilt = <<FALSE, TRUE>>
    /\ gfilt = <<TRUE, TRUE>>

\* ------------------------------------------------------------------------
\* the normalize flag
\* ------------------------------------------------------------------------
\* C21: the flag controls rescaling only: with normalize off a returned
\* column is the sanitized, length-aligned column as stored, with normalize
\* on it is that column min-max normalized; the metric names, the column
\* lengths and the positions of the missing markers are those of the
\* column without normalization in both cases.
C21_FlagOnlyRescales ==
    pc = "done"
    => /\ DOMAIN metrics = MetricNames
       /\ \A k \in MetricNames :
            LET base == AlignLength(sanitize_array(rawcols[k]), G.n)
            IN  /\ Len(Column(k)) = G.n
                /\ MissingPos(Column(k)) = MissingPos(base)
                /\ Column(k) = IF normalize THEN minmax_normalize(base) ELSE base

\* ------------------------------------------------------------------------
\* plot_box (specification SpecPlot)
\* ------------------------------------------------------------------------
\* C22: plot_box called with an output path on a table where some metric
\* has a valid value has created the file at that path when it returns; on
\* a table without any valid value it returns without creating a file.
C22_BoxPlotFile ==
    (ppc = "returned" /\ plot_out # "none")
    => IF \E i \in 1..Len(PlotKeys) : FinitePos(Column(PlotKeys[i])) # {}
       THEN files = {plot_out}
       ELSE files = {}

C22_Witness ==
    /\ ppc = "returned"
    /\ plot_out = "png"
    /\ Column("metric_a") = <<NaN, NaN>>
    /\ Column("metric_b") = <<NaN, Num(1)>>
    /\ Len(used) = 1
    /\ files = {"png"}

\* ------------------------------------------------------------------------
\* the number of invocations per component (specification SpecRunner)
\* ------------------------------------------------------------------------
\* the invocations of every iteration so far, the current one included
Iterations ==
    {hist[i].calls : i \in 1..Len(hist)}
    \cup (IF rpc \in {"call", "retry", "splice"} THEN {calls} ELSE {})

\* C23: for a component the runner invokes the callable at most twice;
\* the first invocation carries a weight; there is a second one only after
\* the first raised TypeError, and it carries no weight; a first invocation
\* that raised another exception is not retried.
C23_AtMostTwoInvocations ==
    /\ \A cs \in Iterations :
        /\ Len(cs) <= 2
        /\ (cs # <<>>) => cs[1].weight
        /\ (Len(cs) = 2) => (cs[1].ex = "TypeError" /\ ~cs[2].weight)
    /\ (rpc = "call") => (calls = <<>>)
    /\ (rpc = "retry") => (Len(calls) = 1 /\ calls[1].ex = "TypeError")
    /\ (rpc = "splice" /\ calls[1].ex \notin {"none", "TypeError"})
       => (Len(calls) = 1 /\ res = NoneRes)

C23_Witness ==
    /\ rpc = "returned"
    /\ fault = "Exception"
    /\ Len(hist) = 2
    /\ Len(hist[1].calls) = 1
    /\ hist[1].calls[1].ex = "Exception"
    /\ hist[1].how = "missing"
    /\ hist[2].how = "spliced"

\* ------------------------------------------------------------------------
\* a plain sequence as the result of a component (specification SpecRunner)
\* ------------------------------------------------------------------------
\* C24: when the invocation for a component of K vertices returned a plain
\* numeric sequence of length L, value i of the sequence is at the index of
\* the i-th vertex of the component, in ascending order of index, for every
\* i up to min(L, K); the other vertices of the component stay missing,
\* values beyond K are dropped, and no other index changes.
C24_SequenceByPosition ==
    [][(rpc = "splice" /\ rpc' = "loop")
       => \A e \in {hist'[Len(hist')]} :
            (e.how = "spliced" /\ ~HasA(e.res))
            => \A vs \in {SortSet(CompVertices(uniq[ci]))} :
               \A tmp \in {AsArray(e.res)} :
                 /\ \A i \in 1..Len(vs) :
                      At(arr', vs[i]) = IF i <= Len(tmp) THEN tmp[i] ELSE NaN
                 /\ \A v \in Vertices(G) \ CompVertices(uniq[ci]) :
                      At(arr', v) = At(arr, v)]_vars

C24_Witness ==
    /\ rpc = "returned"
    /\ G.n = 2
    /\ Len(hist) = 1
    /\ hist[1].how = "spliced"
    /\ hist[1].res.shape = "seq"
    /\ Len(hist[1].res.vals) = 1
    /\ arr = <<hist[1].res.vals[1], NaN>>

\* ------------------------------------------------------------------------
\* the regions written by the iterations of one run (specification SpecRunner)
\* ------------------------------------------------------------------------
\* what entry e of the history wrote at vertex v of its component
\* (NaN: the index was left missing)
WrittenAt(e, vs, v) ==
    IF HasA(e.res) THEN At(e.res.vals, v)
    ELSE LET tmp == AsArray(e.res)
             i == CHOOSE j \in 1..Len(vs) : vs[j] = v
         IN  IF i <= Len(tmp) THEN tmp[i] ELSE NaN

\* C25: within the run of one metric the iterations come one after another
\* (a single iteration is under way at any time), no two of them are for
\* the same component, so the sets of indices they write are disjoint, and
\* every value an iteration wrote is still in the result array afterwards.
C25_DisjointWriteRegions ==
    \A lab \in {label_components(G)} :
      LET region(c) == {v \in Vertices(G) : At(lab, v) = c}
      IN  /\ \A i, j \in 1..Len(hist) :
                (i < j /\ hist[i].m = hist[j].m)
                => region(hist[i].c) \cap region(hist[j].c) = {}
          /\ \A i \in 1..Len(hist) :
                (hist[i].m = metric /\ hist[i].how = "spliced")
                => \A v \in region(hist[i].c) :
                     At(arr, v) = WrittenAt(hist[i], SortSet(region(hist[i].c)), v)
          /\ (rpc \in {"call", "retry", "splice"})
             => \A i \in 1..Len(hist) : hist[i].c # uniq[ci]

C25_Witness ==
    /\ rpc = "returned"
    /\ Len(hist) = 2
    /\ hist[1].c # hist[2].c
    /\ hist[1].how = "spliced" /\ hist[2].how = "spliced"
    /\ fault = "wide"
    /\ hist[1].res # hist[2].res
    /\ \A v \in Vertices(G) : At(arr, v) # NaN

\* ------------------------------------------------------------------------
\* the reused vertex filter (specification SpecRunner)
\* ------------------------------------------------------------------------
\* C26: when the callable is invoked for the component labelled c, the view
\* has the vertices labelled c and no others, whatever happened in the
\* iterations before: the one vertex filter shared by the iterations holds
\* nothing of an earlier component, spliced or failed.
C26_ViewIsTheComponent ==
    \A lab \in {label_components(G)} :
      LET members(c) == SortSet({v \in Vertices(G) : At(lab, v) = c})
      IN  /\ (rpc \in {"call", "retry"})
             => view_vertices(vfilt) = members(uniq[ci])
          /\ (rpc \in {"call", "retry", "splice"})
             => \A k \in 1..Len(calls) : calls[k].view = members(uniq[ci])
          /\ \A i \in 1..Len(hist) :
                (hist[i].c >= 0)
                => \A k \in 1..Len(hist[i].calls) :
                     hist[i].calls[k].view = members(hist[i].c)

C26_Witness ==
    /\ rpc = "splice"
    /\ ci = 2
    /\ Len(hist) = 1
    /\ hist[1].how = "missing"
    /\ hist[1].calls[1].view = <<0>>
    /\ calls[1].view = <<1>>
    /\ vfilt = <<FALSE, TRUE>>

\* ------------------------------------------------------------------------
\* normalizing twice (specification SpecNorm)
\* ------------------------------------------------------------------------
\* C27: minmax_normalize applied to a column it has already normalized
\* returns the same values at the same positions and the same missing
\* positions; so an array bound to two keys and normalized in place once
\* for each key holds what a single normalization gives.
C27_NormalizeTwice ==
    (fpc = "renormalized")
    => /\ out = minmax_normalize(inp)
       /\ ValidPos(out) = ValidPos(minmax_normalize(inp))

C27_Witness ==
    /\ fpc = "renormalized"
    /\ Len(inp) = 3
    /\ inp # out
    /\ \E i, j, k \in 1..3 : out[i] = Num(0) /\ out[j] = Num(1) /\ isnan(out[k])
    /\ \E i \in 1..3 : isfinite(inp[i]) /\ inp[i] # out[i]

====
